---- MODULE Spec2Model ----
(***************************************************************************)
(* A model of git-glob-scanner (src/src/lib.rs): the repository walker     *)
(* walk_repo, its three entry points walk_repo_glob, walk_repo_globs and   *)
(* walk_repo_globs_map, and the .gitmodules reader read_submodule_paths.   *)
(*                                                                         *)
(* Text is modelled as a sequence of one-character strings, so that glob   *)
(* compilation and matching work on characters as globset does.  A path is *)
(* a sequence of names (components); PathStr joins it with "/".            *)
(***************************************************************************)
EXTENDS Integers, Sequences, FiniteSets, TLC

VARIABLES
    fs,              \* the working tree: a set of entries [path, kind]
    gitmodules,      \* <root>/.gitmodules: Some(lines), or None when there is no such file
    todo,            \* calls still to be made, in order
    pc,              \* "idle" | "walking"
    call,            \* the call in progress (NoCall when idle)
    submodule_paths, \* walk_repo: Option<Vec<String>> read from .gitmodules
    submodule_glob,  \* walk_repo: Option<GlobSet> built from submodule_paths
    matchers,        \* the entry point's compiled matcher(s): a list of (key, GlobSet)
    stack,           \* the directory iterator: one list of pending entries per open directory
    yielded,         \* the entries handed to the classification closure so far
    collected,       \* walk_repo: the Vec<Res> collected so far
    history          \* completed calls with their return values, in order

vars == <<fs, gitmodules, todo, pc, call, submodule_paths, submodule_glob, matchers,
          stack, yielded, collected, history>>

(***************************************************************************)
(* Characters and byte order                                               *)
(***************************************************************************)

\* ASCII codes of the characters that occur in names and patterns.
CharCode ==
    ("*" :> 42) @@ ("-" :> 45) @@ ("." :> 46) @@ ("/" :> 47) @@ ("?" :> 63) @@
    ("A" :> 65) @@ ("D" :> 68) @@ ("E" :> 69) @@ ("H" :> 72) @@
    ("[" :> 91) @@ ("]" :> 93) @@
    ("a" :> 97) @@ ("b" :> 98) @@ ("c" :> 99) @@ ("d" :> 100) @@ ("e" :> 101) @@
    ("g" :> 103) @@ ("h" :> 104) @@ ("i" :> 105) @@ ("j" :> 106) @@ ("k" :> 107) @@ ("l" :> 108) @@
    ("m" :> 109) @@ ("n" :> 110) @@ ("o" :> 111) @@ ("p" :> 112) @@
    ("r" :> 114) @@ ("s" :> 115) @@ ("t" :> 116) @@ ("u" :> 117) @@
    ("v" :> 118) @@ ("x" :> 120) @@ ("y" :> 121)

\* Ordering of two byte strings (Ord for OsStr / [u8]): -1, 0 or 1.
RECURSIVE CmpStr(_, _)
CmpStr(a, b) ==
    IF a = <<>> /\ b = <<>> THEN 0
    ELSE IF a = <<>> THEN -1
    ELSE IF b = <<>> THEN 1
    ELSE IF CharCode[Head(a)] < CharCode[Head(b)] THEN -1
    ELSE IF CharCode[Head(a)] > CharCode[Head(b)] THEN 1
    ELSE CmpStr(Tail(a), Tail(b))

\* Ordering of two paths (Ord for Path): component by component.
RECURSIVE CmpPath(_, _)
CmpPath(a, b) ==
    IF a = <<>> /\ b = <<>> THEN 0
    ELSE IF a = <<>> THEN -1
    ELSE IF b = <<>> THEN 1
    ELSE LET c == CmpStr(Head(a), Head(b))
         IN  IF c # 0 THEN c ELSE CmpPath(Tail(a), Tail(b))

\* Path::to_str of a relative path: its components joined by "/".
RECURSIVE PathStr(_)
PathStr(p) ==
    IF p = <<>> THEN <<>>
    ELSE IF Len(p) = 1 THEN p[1]
    ELSE p[1] \o <<"/">> \o PathStr(Tail(p))

(***************************************************************************)
(* globset: Glob::new (parsing) and is_match, with the default options     *)
(* the code uses (literal_separator = false, no backslash escapes needed). *)
(* Patterns are over letters, ".", "/", "*", "?", "[" and "]".             *)
(***************************************************************************)

Literal(c) == [t |-> "Literal", c |-> c]
\* Token::Any (the name Any is taken by the TLC module)
AnyChar == [t |-> "Any"]
ZeroOrMore == [t |-> "ZeroOrMore"]
RecursivePrefix == [t |-> "RecursivePrefix"]
RecursiveSuffix == [t |-> "RecursiveSuffix"]
RecursiveZeroOrMore == [t |-> "RecursiveZeroOrMore"]
Class(chars) == [t |-> "Class", chars |-> chars]

is_separator(c) == c = "/"

GlobErr == [ok |-> FALSE, tokens |-> <<>>]
GlobOk(tokens) == [ok |-> TRUE, tokens |-> tokens]

\* Parser::parse_class from the character after "[": the index of the closing
\* "]" (a "]" right after "[" is a member of the class), or 0 when unclosed.
RECURSIVE ClassEnd(_, _, _)
ClassEnd(glob, j, first) ==
    IF j > Len(glob) THEN 0
    ELSE IF glob[j] = "]" /\ ~first THEN j
    ELSE ClassEnd(glob, j + 1, FALSE)

\* Parser::parse with parse_star and parse_class: tokens of glob[i..].
RECURSIVE ParseFrom(_, _, _)
ParseFrom(glob, i, tokens) ==
    IF i > Len(glob) THEN GlobOk(tokens)
    ELSE LET c == glob[i] IN
    IF c = "?" THEN ParseFrom(glob, i + 1, Append(tokens, AnyChar))
    ELSE IF c = "[" THEN
        LET e == ClassEnd(glob, i + 1, TRUE)
        IN  IF e = 0 THEN GlobErr
            ELSE ParseFrom(glob, e + 1,
                           Append(tokens, Class({glob[k] : k \in (i + 1)..(e - 1)})))
    ELSE IF c # "*" THEN ParseFrom(glob, i + 1, Append(tokens, Literal(c)))
    ELSE IF i + 1 > Len(glob) \/ glob[i + 1] # "*" THEN
        ParseFrom(glob, i + 1, Append(tokens, ZeroOrMore))
    ELSE
        \* "**": the second star is at i + 1, peek is glob[i + 2] (if any)
        LET atEnd == i + 2 > Len(glob)
            peekSep == ~atEnd /\ is_separator(glob[i + 2])
            twoStars == ParseFrom(glob, i + 2, tokens \o <<ZeroOrMore, ZeroOrMore>>)
        IN  IF tokens = <<>> THEN
                IF ~atEnd /\ ~peekSep THEN twoStars
                ELSE ParseFrom(glob, i + 3, Append(tokens, RecursivePrefix))
            ELSE IF ~is_separator(glob[i - 1]) THEN twoStars
            ELSE IF ~atEnd /\ ~peekSep THEN twoStars
            ELSE
                LET is_suffix == atEnd
                    next == IF atEnd THEN i + 2 ELSE i + 3
                    last == tokens[Len(tokens)]
                    init == SubSeq(tokens, 1, Len(tokens) - 1)
                    tok == IF last.t \in {"RecursivePrefix", "RecursiveSuffix"}
                           THEN last
                           ELSE IF is_suffix THEN RecursiveSuffix
                           ELSE RecursiveZeroOrMore
                IN  ParseFrom(glob, next, Append(init, tok))

\* Glob::new(glob)
GlobNew(glob) == ParseFrom(glob, 1, <<>>)

\* The regular expression of a token sequence, matched against path[j..]:
\*   Literal c -> c       Any -> .       ZeroOrMore -> .*     Class -> [..]
\*   RecursivePrefix -> (?:/?|.*/)   RecursiveSuffix -> /.*
\*   RecursiveZeroOrMore -> (?:/|/.*/)
RECURSIVE MatchFrom(_, _, _, _)
MatchFrom(tokens, i, path, j) ==
    LET n == Len(path) IN
    IF i > Len(tokens) THEN j = n + 1
    ELSE LET tok == tokens[i] IN
    CASE tok.t = "Literal" ->
            j <= n /\ path[j] = tok.c /\ MatchFrom(tokens, i + 1, path, j + 1)
      [] tok.t = "Any" ->
            j <= n /\ MatchFrom(tokens, i + 1, path, j + 1)
      [] tok.t = "Class" ->
            j <= n /\ path[j] \in tok.chars /\ MatchFrom(tokens, i + 1, path, j + 1)
      [] tok.t = "ZeroOrMore" ->
            \E k \in j..(n + 1) : MatchFrom(tokens, i + 1, path, k)
      [] tok.t = "RecursivePrefix" ->
            \/ MatchFrom(tokens, i + 1, path, j)
            \/ \E k \in (j + 1)..(n + 1) :
                   path[k - 1] = "/" /\ MatchFrom(tokens, i + 1, path, k)
      [] tok.t = "RecursiveSuffix" ->
            /\ j <= n /\ path[j] = "/"
            /\ \E k \in (j + 1)..(n + 1) : MatchFrom(tokens, i + 1, path, k)
      [] tok.t = "RecursiveZeroOrMore" ->
            /\ j <= n /\ path[j] = "/"
            /\ \/ MatchFrom(tokens, i + 1, path, j + 1)
               \/ \E k \in (j + 2)..(n + 1) :
                      path[k - 1] = "/" /\ MatchFrom(tokens, i + 1, path, k)

\* GlobMatcher::is_match: the whole path against the glob's regex; a glob that
\* is just "**" is compiled to ".*".
GlobIsMatch(tokens, path) ==
    IF tokens = <<RecursivePrefix>> THEN TRUE
    ELSE MatchFrom(tokens, 1, path, 1)

\* GlobSet::is_match: some glob of the set matches (false for the empty set).
GlobSetIsMatch(globset, path) ==
    \E g \in 1..Len(globset) : GlobIsMatch(globset[g], path)

\* Mutant: one pattern that does not compile leaves the set empty.
BuildGlobSetAllOrNothing(globs) ==
    IF \E i \in DOMAIN globs : ~GlobNew(globs[i]).ok THEN <<>>
    ELSE [i \in DOMAIN globs |-> GlobNew(globs[i]).tokens]

\* GlobSetBuilder: add every pattern that compiles, skip the others, build.
RECURSIVE BuildGlobSet(_)
BuildGlobSet(globs) ==
    IF globs = <<>> THEN <<>>
    ELSE LET g == GlobNew(Head(globs))
         IN  (IF g.ok THEN <<g.tokens>> ELSE <<>>) \o BuildGlobSet(Tail(globs))

(***************************************************************************)
(* The working tree                                                        *)
(***************************************************************************)

\* Option<T>: None is the empty sequence, Some(x) the one-element sequence.
None == <<>>
Some(x) == <<x>>

Entry(path, kind) == [path |-> path, kind |-> kind]

\* The repository root: the entry at depth 0, whose relative path is empty.
Root == Entry(<<>>, "dir")

Parent(p) == SubSeq(p, 1, Len(p) - 1)

\* Path::file_name of a non-empty relative path: its last component.
file_name(p) == p[Len(p)]

\* std::fs::read_dir: the entries directly inside directory d.
ReadDir(tree, d) ==
    {e \in tree : Len(e.path) = Len(d) + 1 /\ Parent(e.path) = d}

\* Path::is_dir, which follows symbolic links.
is_dir(tree, p) ==
    \E e \in tree : e.path = p /\ e.kind \in {"dir", "symlink_dir"}

\* Mutant: the walk follows symbolic links.
follow_links_on == TRUE

\* walk_builder.follow_links(false)
follow_links == FALSE

\* DirEntry::file_type: of the link itself unless links are followed.
file_type(e) ==
    IF e.kind \in {"symlink_file", "symlink_dir"} /\ ~follow_links THEN "symlink"
    ELSE IF e.kind \in {"file", "symlink_file"} THEN "file"
    ELSE "dir"

(***************************************************************************)
(* .gitmodules: gix_config::File::from_str and read_submodule_paths.       *)
(* A configuration text is a sequence of lines: a section header           *)
(* [name "sub"], a "key = value" line, or a line that is neither (junk).   *)
(***************************************************************************)

Header(name, sub) == [t |-> "header", name |-> name, sub |-> sub]
KeyValue(key, val) == [t |-> "kv", key |-> key, val |-> val]
Junk == [t |-> "junk"]

\* The parser: sections in file order, each with its key/value lines in
\* order; an error on a junk line or on a key/value line before any header.
RECURSIVE ParseLines(_, _)
ParseLines(lines, sections) ==
    IF lines = <<>> THEN [ok |-> TRUE, sections |-> sections]
    ELSE LET l == Head(lines) IN
    IF l.t = "header" THEN
        ParseLines(Tail(lines),
                   Append(sections, [name |-> l.name, sub |-> l.sub, body |-> <<>>]))
    ELSE IF l.t = "kv" /\ sections # <<>> THEN
        LET n == Len(sections)
        IN  ParseLines(Tail(lines),
                       [sections EXCEPT ![n].body = Append(@, <<l.key, l.val>>)])
    ELSE [ok |-> FALSE, sections |-> <<>>]

from_str(text) == ParseLines(text, <<>>)

\* Section::value(key): the value of the last occurrence of key, or None.
RECURSIVE value(_, _)
value(body, key) ==
    IF body = <<>> THEN None
    ELSE LET last == body[Len(body)]
         IN  IF last[1] = key THEN Some(last[2])
             ELSE value(SubSeq(body, 1, Len(body) - 1), key)

\* Mutant: the paths are collected in the reverse of the section order.
RECURSIVE PathsOfReversed(_)
PathsOfReversed(sections) ==
    IF sections = <<>> THEN <<>>
    ELSE LET v == value(Head(sections).body, "path")
         IN  PathsOfReversed(Tail(sections)) \o (IF v = None THEN <<>> ELSE <<v[1]>>)

\* sections.filter_map(|section| section.value("path")).collect()
RECURSIVE PathsOf(_)
PathsOf(sections) ==
    IF sections = <<>> THEN <<>>
    ELSE LET v == value(Head(sections).body, "path")
         IN  (IF v = None THEN <<>> ELSE <<v[1]>>) \o PathsOf(Tail(sections))

\* read_submodule_paths: Err, Ok(None) or Ok(Some(paths)).
read_submodule_paths(text) ==
    LET file == from_str(text)
        sections == SelectSeq(file.sections, LAMBDA s : s.name = "submodule")
    IN  IF ~file.ok THEN [ok |-> FALSE, val |-> None]
        ELSE IF sections # <<>> THEN [ok |-> TRUE, val |-> Some(PathsOf(sections))]
        ELSE [ok |-> TRUE, val |-> None]

\* get_submodule_paths: None when the file is missing, does not parse or has
\* no submodule section; otherwise the list of paths.
get_submodule_paths(content) ==
    IF content = None THEN None
    ELSE LET r == read_submodule_paths(content[1])
         IN  IF r.ok THEN r.val ELSE None

\* walk_repo: the GlobSet of the submodule paths that compile as globs.
SubmoduleGlob(paths) ==
    IF paths = None THEN None ELSE Some(BuildGlobSet(paths[1]))

(***************************************************************************)
(* walk_repo: the entry filter, the sibling order and the iteration        *)
(***************************************************************************)

\* Mutant: the submodule matcher is asked about the directory's name instead
\* of its path relative to the root.
filter_entry_by_name(e, subglob) ==
    IF file_type(e) = "file" THEN TRUE
    ELSE IF file_type(e) = "symlink" THEN FALSE
    ELSE IF e.path = <<>> THEN FALSE
    ELSE IF file_name(e.path) = <<".", "g", "i", "t">> THEN FALSE
    ELSE IF subglob # None /\ GlobSetIsMatch(subglob[1], file_name(e.path)) THEN FALSE
    ELSE TRUE

\* The filter_entry closure.
filter_entry(e, subglob) ==
    IF file_type(e) = "file" THEN TRUE
    ELSE IF file_type(e) = "symlink" THEN FALSE
    ELSE IF e.path = <<>> THEN FALSE
    ELSE IF file_name(e.path) = <<".", "g", "i", "t">> THEN FALSE
    ELSE IF subglob # None /\ GlobSetIsMatch(subglob[1], PathStr(e.path)) THEN FALSE
    ELSE TRUE

\* Mutant: siblings are compared by path alone, directories not last.
sort_by_file_path_plain(tree, a, b) == CmpPath(a, b)

\* The sort_by_file_path comparator: -1 (Less), 0 or 1 (Greater).
sort_by_file_path(tree, a, b) ==
    IF is_dir(tree, a) /\ is_dir(tree, b) THEN CmpPath(a, b)
    ELSE IF ~is_dir(tree, a) /\ ~is_dir(tree, b) THEN CmpPath(a, b)
    ELSE IF is_dir(tree, a) THEN 1
    ELSE -1

\* A set of sibling entries as the list the comparator sorts it into.
RECURSIVE Sorted(_, _)
Sorted(tree, entries) ==
    IF entries = {} THEN <<>>
    ELSE LET m == CHOOSE x \in entries :
                      \A y \in entries \ {x} : sort_by_file_path(tree, x.path, y.path) < 0
         IN  <<m>> \o Sorted(tree, entries \ {m})

\* The iterator's ignore-file rules (.gitignore, .ignore) exclude nothing
\* here: the trees walked hold no such file.
\* One call of the iterator's next(): entries the filter rejects are passed
\* over (a rejected directory is not opened) until an entry is yielded; a
\* yielded directory is opened, its sorted entries becoming the innermost
\* list.  The root (depth 0) is not submitted to the filter.
RECURSIVE WalkNext(_, _, _)
WalkNext(tree, subglob, st) ==
    IF st = <<>> THEN [found |-> FALSE, entry |-> Root, stack |-> <<>>]
    ELSE LET top == st[Len(st)]
             below == SubSeq(st, 1, Len(st) - 1)
         IN  IF top = <<>> THEN WalkNext(tree, subglob, below)
             ELSE LET e == Head(top)
                      rest == Append(below, Tail(top))
                  IN  IF e.path # <<>> /\ ~filter_entry(e, subglob)
                      THEN WalkNext(tree, subglob, rest)
                      ELSE [found |-> TRUE, entry |-> e,
                            stack |-> IF file_type(e) = "dir"
                                      THEN Append(rest, Sorted(tree, ReadDir(tree, e.path)))
                                      ELSE rest]

(***************************************************************************)
(* The entry points                                                        *)
(***************************************************************************)

Glob(glob) == [fn |-> "walk_repo_glob", glob |-> glob]
Globs(globs) == [fn |-> "walk_repo_globs", globs |-> globs]
GlobsMap(globs_map) == [fn |-> "walk_repo_globs_map", globs_map |-> globs_map]
NoCall == [fn |-> "none"]

\* The sequences that list every element of set S once (the orders in which
\* a HashMap may iterate over its keys).
RECURSIVE Orders(_)
Orders(S) ==
    IF S = {} THEN {<<>>}
    ELSE UNION {{<<x>> \o o : o \in Orders(S \ {x})} : x \in S}

\* Mutant: in walk_repo_globs_map only the first matching key records the path.
ClassifyFirstMatch(fn, ms, path) ==
    IF fn = "walk_repo_globs_map"
    THEN LET hit == {i \in 1..Len(ms) : GlobSetIsMatch(ms[i].set, path)}
         IN  IF hit = {} THEN <<<<>>>>
             ELSE <<<< <<ms[CHOOSE i \in hit : \A j \in hit : i <= j].key, path>> >>>>
    ELSE IF GlobSetIsMatch(ms[1].set, path) THEN <<path>> ELSE <<>>

\* The classification closures: what f(path) adds to the collected Vec.
\* walk_repo_glob, walk_repo_globs: the path when the matcher matches it;
\* walk_repo_globs_map: the list of (key, path) of every key whose matcher
\* matches, an empty list included.
Classify(fn, ms, path) ==
    IF fn = "walk_repo_globs_map"
    THEN <<SelectSeq([i \in 1..Len(ms) |-> <<ms[i].key, path>>],
                     LAMBDA kv : \E i \in 1..Len(ms) :
                         ms[i].key = kv[1] /\ GlobSetIsMatch(ms[i].set, path))>>
    ELSE IF GlobSetIsMatch(ms[1].set, path) THEN <<path>> ELSE <<>>

\* Mutant: only the keys that have a compiled pattern get a list.
InitAccumCompiled(globs_map) ==
    [k \in {x \in DOMAIN globs_map : BuildGlobSet(globs_map[x]) # <<>>} |-> <<>>]

\* walk_repo_globs_map: accum with every key of the input bound to an empty list.
InitAccum(globs_map) == [k \in DOMAIN globs_map |-> <<>>]

\* walk_repo_globs_map: the pairs, flattened, pushed onto their key's list.
RECURSIVE Accumulate(_, _)
Accumulate(accum, pairs) ==
    IF pairs = <<>> THEN accum
    ELSE LET key == Head(pairs)[1]
             path == Head(pairs)[2]
         IN  Accumulate(IF key \in DOMAIN accum
                        THEN [accum EXCEPT ![key] = Append(@, path)]
                        ELSE accum,
                        Tail(pairs))

RECURSIVE Flatten(_)
Flatten(ss) == IF ss = <<>> THEN <<>> ELSE Head(ss) \o Flatten(Tail(ss))

\* The value the call returns once the walk has collected everything.
ReturnValue(c, coll) ==
    IF c.fn = "walk_repo_globs_map"
    THEN Accumulate(InitAccum(c.globs_map), Flatten(coll))
    ELSE coll

Done(c, ret) == [call |-> c, ret |-> ret]

\* walk_repo up to the construction of the iterator.
BeginWalk(c, ms) ==
    /\ pc' = "walking"
    /\ call' = c
    /\ matchers' = ms
    /\ submodule_paths' = get_submodule_paths(gitmodules)
    /\ submodule_glob' = SubmoduleGlob(get_submodule_paths(gitmodules))
    /\ stack' = <<<<Root>>>>
    /\ yielded' = <<>>
    /\ collected' = <<>>
    /\ todo' = Tail(todo)
    /\ UNCHANGED <<fs, gitmodules, history>>

\* walk_repo_glob: a pattern that does not compile returns the empty list at
\* once; otherwise the walk starts with the pattern's matcher.
walk_repo_glob ==
    /\ pc = "idle" /\ todo # <<>> /\ Head(todo).fn = "walk_repo_glob"
    /\ LET c == Head(todo)
           glob == GlobNew(c.glob)
       IN  IF ~glob.ok
           THEN /\ history' = Append(history, Done(c, <<>>))
                /\ todo' = Tail(todo)
                /\ UNCHANGED <<fs, gitmodules, pc, call, submodule_paths, submodule_glob,
                               matchers, stack, yielded, collected>>
           ELSE BeginWalk(c, <<[key |-> "", set |-> <<glob.tokens>>]>>)

\* walk_repo_globs: the walk starts with the set of the patterns that compile.
walk_repo_globs ==
    /\ pc = "idle" /\ todo # <<>> /\ Head(todo).fn = "walk_repo_globs"
    /\ LET c == Head(todo)
       IN  BeginWalk(c, <<[key |-> "", set |-> BuildGlobSet(c.globs)]>>)

\* walk_repo_globs_map: one matcher per key, in the order the HashMap happens
\* to iterate in.
walk_repo_globs_map ==
    /\ pc = "idle" /\ todo # <<>> /\ Head(todo).fn = "walk_repo_globs_map"
    /\ LET c == Head(todo)
       IN  \E order \in Orders(DOMAIN c.globs_map) :
               BeginWalk(c, [i \in 1..Len(order) |->
                                [key |-> order[i],
                                 set |-> BuildGlobSet(c.globs_map[order[i]])]])

\* One iteration of walk_repo's filter_map: the next entry the iterator
\* yields is classified, unless its relative path is empty (the root).
Visit ==
    /\ pc = "walking"
    /\ LET n == WalkNext(fs, submodule_glob, stack)
       IN  /\ n.found
           /\ stack' = n.stack
           /\ IF n.entry.path = <<>>
              THEN UNCHANGED <<yielded, collected>>
              ELSE /\ yielded' = Append(yielded, n.entry)
                   /\ collected' = collected \o
                          Classify(call.fn, matchers, PathStr(n.entry.path))
    /\ UNCHANGED <<fs, gitmodules, todo, pc, call, submodule_paths, submodule_glob,
                   matchers, history>>

\* The iterator is exhausted: the call returns.
Return ==
    /\ pc = "walking"
    /\ ~WalkNext(fs, submodule_glob, stack).found
    /\ history' = Append(history, Done(call, ReturnValue(call, collected)))
    /\ pc' = "idle"
    /\ call' = NoCall
    /\ matchers' = <<>>
    /\ submodule_paths' = None
    /\ submodule_glob' = None
    /\ stack' = <<>>
    /\ yielded' = <<>>
    /\ collected' = <<>>
    /\ UNCHANGED <<fs, gitmodules, todo>>

Next ==
    \/ walk_repo_glob
    \/ walk_repo_globs
    \/ walk_repo_globs_map
    \/ Visit
    \/ Return

(***************************************************************************)
(* Inputs                                                                  *)
(***************************************************************************)

\* Largest number of entries in a tree, of patterns in a list, and of lines
\* in a .gitmodules text.
MaxEntries == 5
MaxGlobs == 2
MaxLines == 5

n_git == <<".", "g", "i", "t">>
n_gitmodules == <<".", "g", "i", "t", "m", "o", "d", "u", "l", "e", "s">>
n_github == <<".", "g", "i", "t", "h", "u", "b">>
n_HEAD == <<"H", "E", "A", "D">>
n_a_txt == <<"a", ".", "t", "x", "t">>
n_b == <<"b">>
n_b_txt == <<"b", ".", "t", "x", "t">>
n_vendor == <<"v", "e", "n", "d", "o", "r">>
n_lib == <<"l", "i", "b">>
n_readme_md == <<"r", "e", "a", "d", "m", "e", ".", "m", "d">>
n_pkg == <<"p", "k", "g">>
n_package_json == <<"p", "a", "c", "k", "a", "g", "e", ".", "j", "s", "o", "n">>
n_yarn_lock == <<"y", "a", "r", "n", ".", "l", "o", "c", "k">>

\* The entries a tree may hold.  ".git" and "a.txt" and "b" come in two kinds;
\* ".github" is a directory whose name only starts with ".git".
Universe ==
    { Entry(<<n_git>>, "dir"), Entry(<<n_git>>, "file"), Entry(<<n_git, n_HEAD>>, "file"),
      Entry(<<n_a_txt>>, "file"), Entry(<<n_a_txt>>, "symlink_file"),
      Entry(<<n_b>>, "dir"), Entry(<<n_b>>, "symlink_dir"), Entry(<<n_b, n_b_txt>>, "file"),
      Entry(<<n_vendor>>, "dir"), Entry(<<n_vendor, n_lib>>, "dir"),
      Entry(<<n_vendor, n_lib, n_readme_md>>, "file"),
      Entry(<<n_github>>, "dir"), Entry(<<n_github, n_a_txt>>, "file") }

PkgUniverse ==
    { Entry(<<n_package_json>>, "file"), Entry(<<n_pkg>>, "dir"),
      Entry(<<n_pkg, n_package_json>>, "file"), Entry(<<n_pkg, n_yarn_lock>>, "file") }

\* A tree: no path twice, and every entry inside a directory (or inside what a
\* symbolic link to a directory resolves to).
WellFormed(tree) ==
    /\ \A e1, e2 \in tree : e1.path = e2.path => e1 = e2
    /\ \A e \in tree : Len(e.path) > 1 => is_dir(tree, Parent(e.path))

Trees(universe, n) ==
    {t \in SUBSET universe : Cardinality(t) <= n /\ WellFormed(t)}

\* The tree with its .gitmodules file, when there is one.
WithGitmodules(tree, content) ==
    IF content = None THEN tree ELSE tree \cup {Entry(<<n_gitmodules>>, "file")}

p_star_txt == <<"*", ".", "t", "x", "t">>
p_all == <<"*", "*">>
p_b == <<"b">>
p_any_md == <<"*", "*", "/", "*", ".", "m", "d">>
p_any_json == <<"*", "*", "/", "*", ".", "j", "s", "o", "n">>
p_any_lock == <<"*", "*", "/", "*", ".", "l", "o", "c", "k">>
p_unclosed == <<"[">>
p_vendor_star == <<"v", "e", "n", "d", "o", "r", "/", "*">>

Patterns == {p_star_txt, p_all, p_b, p_any_md, p_unclosed}
PkgPatterns == {p_any_json, p_any_lock, p_unclosed}

\* A .gitmodules text declaring one submodule at path.
Declares(path) ==
    <<Header("submodule", path), KeyValue("path", path), KeyValue("url", <<"u">>)>>

SeqsUpTo(S, n) == UNION {[1..k -> S] : k \in 0..n}

TypeInit ==
    /\ pc = "idle"
    /\ call = NoCall
    /\ submodule_paths = None
    /\ submodule_glob = None
    /\ matchers = <<>>
    /\ stack = <<>>
    /\ yielded = <<>>
    /\ collected = <<>>
    /\ history = <<>>

\* One call of one entry point on any tree, with or without submodules (one
\* of the declared paths is a glob, "vendor/*").
WalkCalls ==
    {Glob(p) : p \in Patterns} \cup {Globs(<<p>>) : p \in Patterns}
    \cup {GlobsMap([k \in {"k"} |-> <<p>>]) : p \in Patterns}

Init ==
    /\ TypeInit
    /\ gitmodules \in {None, Some(Declares(PathStr(<<n_vendor, n_lib>>))),
                       Some(Declares(n_b)), Some(Declares(p_vendor_star))}
    /\ \E t \in Trees(Universe, MaxEntries) : fs = WithGitmodules(t, gitmodules)
    /\ todo \in {<<c>> : c \in WalkCalls}

Spec == Init /\ [][Next]_vars

\* A pattern list without the patterns that do not compile.
ValidOnly(globs) == SelectSeq(globs, LAMBDA g : GlobNew(g).ok)

PkgLists == SeqsUpTo(PkgPatterns, MaxGlobs)
PkgMaps == UNION {[keys -> PkgLists] : keys \in SUBSET {"json", "lock"}}

\* Calls made one after the other on the same tree: a mapping and then the
\* pattern list of one of its keys; a list or a mapping and then the same
\* without its invalid patterns; a single pattern.
Scripts ==
    UNION {{<<GlobsMap(m), Globs(m[k])>> : k \in DOMAIN m} : m \in PkgMaps}
    \cup {<<GlobsMap(m), GlobsMap([k \in DOMAIN m |-> ValidOnly(m[k])])>> : m \in PkgMaps}
    \cup {<<Globs(l), Globs(ValidOnly(l))>> : l \in PkgLists}
    \cup {<<Glob(p)>> : p \in PkgPatterns}

InitCalls ==
    /\ TypeInit
    /\ gitmodules = None
    /\ fs \in Trees(PkgUniverse, MaxEntries)
    /\ todo \in Scripts

SpecCalls == InitCalls /\ [][Next]_vars

\* The lines a .gitmodules text is made of.
Lines ==
    { Header("submodule", n_b), Header("core", <<>>),
      KeyValue("path", PathStr(<<n_vendor, n_lib>>)), KeyValue("path", n_b),
      KeyValue("url", <<"u">>), Junk }

ParseTree ==
    { Entry(<<n_b>>, "dir"), Entry(<<n_b, n_b_txt>>, "file") }

\* Any text as the .gitmodules of one tree.
InitParse ==
    /\ TypeInit
    /\ gitmodules \in {Some(text) : text \in SeqsUpTo(Lines, MaxLines)}
    /\ fs = WithGitmodules(ParseTree, gitmodules)
    /\ todo \in {<<Glob(p_all)>>, <<Globs(<<p_any_md>>)>>,
                 <<GlobsMap([k \in {"k"} |-> <<p_all>>])>>}

SpecParse == InitParse /\ [][Next]_vars

(***************************************************************************)
(* Properties                                                              *)
(***************************************************************************)

Range(f) == {f[i] : i \in DOMAIN f}

\* The lists a completed call returned: one, or one per key.
RetLists(h) ==
    IF h.call.fn = "walk_repo_globs_map" THEN Range(h.ret) ELSE {h.ret}

\* Every path string returned by a completed call or collected so far by the
\* call in progress.
AllReturned ==
    UNION {Range(l) : l \in UNION {RetLists(history[i]) : i \in DOMAIN history}}
    \cup (IF call.fn = "walk_repo_globs_map"
          THEN {kv[2] : kv \in Range(Flatten(collected))}
          ELSE Range(collected))

\* The entries of the tree a path string denotes.
Denoted(r) == {e \in fs : PathStr(e.path) = r}

\* The entries classified or returned so far.
Reported == Range(yielded) \cup UNION {Denoted(r) : r \in AllReturned}

\* Path p is d or lies under d.
IsUnder(p, d) == Len(p) >= Len(d) /\ SubSeq(p, 1, Len(d)) = d

\* C1: every entry handed to the classification closure, and every path
\* returned, is a regular file of the tree; a directory never is.
C1_OnlyRegularFiles ==
    /\ \A e \in Range(yielded) : e.kind = "file"
    /\ \A r \in AllReturned : \E e \in Denoted(r) : e.kind = "file"

\* The directories of the tree whose root-relative path matches a submodule
\* path declared in .gitmodules.
SubmoduleDirs ==
    LET declared == get_submodule_paths(gitmodules)
    IN  IF declared = None THEN {}
        ELSE {d \in fs : /\ is_dir(fs, d.path)
                         /\ \E i \in DOMAIN declared[1] :
                                LET g == GlobNew(declared[1][i])
                                IN  g.ok /\ GlobIsMatch(g.tokens, PathStr(d.path))}

\* C2: nothing classified or returned is, or lies under, a directory whose
\* root-relative path matches a declared submodule path.
C2_NoSubmoduleContent ==
    \A d \in SubmoduleDirs : \A e \in Reported : ~IsUnder(e.path, d.path)

C2_Witness ==
    /\ gitmodules = Some(Declares(PathStr(<<n_vendor, n_lib>>)))
    /\ Entry(<<n_vendor, n_lib, n_readme_md>>, "file") \in fs
    /\ Entry(<<n_b, n_b_txt>>, "file") \in fs
    /\ history = <<Done(Glob(p_all),
                        <<n_gitmodules, n_b, PathStr(<<n_b, n_b_txt>>), n_vendor>>)>>

\* C3: no returned path starts with the segment ".git", whether the root's
\* ".git" is a directory or a regular file; and a directory whose name is
\* not exactly ".git" (".github") is still descended into.
C3_NoDotGitSegment ==
    /\ \A r \in AllReturned : \A e \in Denoted(r) : e.path[1] # n_git
    /\ \A i \in DOMAIN history :
           (/\ history[i].call = Glob(p_all)
            /\ gitmodules = None
            /\ Entry(<<n_github, n_a_txt>>, "file") \in fs)
           => \E k \in DOMAIN history[i].ret :
                  history[i].ret[k] = PathStr(<<n_github, n_a_txt>>)

\* C4: nothing classified or returned is a symbolic link or is reachable
\* only through one.
C4_NoSymlinks ==
    \A e \in Reported : \A a \in fs :
        IsUnder(e.path, a.path) => a.kind \notin {"symlink_file", "symlink_dir"}

C4_Witness ==
    /\ fs = { Entry(<<n_a_txt>>, "symlink_file"), Entry(<<n_b>>, "symlink_dir"),
              Entry(<<n_b, n_b_txt>>, "file"), Entry(<<n_github>>, "dir"),
              Entry(<<n_github, n_a_txt>>, "file") }
    /\ history = <<Done(Glob(p_all), <<n_github, PathStr(<<n_github, n_a_txt>>)>>)>>

\* The tree of the scenario: a.txt, b/b.txt and .git/HEAD.
ScenarioTree ==
    { Entry(<<n_a_txt>>, "file"), Entry(<<n_b>>, "dir"), Entry(<<n_b, n_b_txt>>, "file"),
      Entry(<<n_git>>, "dir"), Entry(<<n_git, n_HEAD>>, "file") }

\* C5: a single "*" does not cross a path separator: walk_repo_glob with
\* "*.txt" returns only root-level files, and exactly ["a.txt"] on the
\* scenario's tree.
C5_StarStaysInRoot ==
    \A i \in DOMAIN history :
        history[i].call = Glob(p_star_txt) =>
            /\ \A r \in Range(history[i].ret) : \A e \in Denoted(r) : Len(e.path) = 1
            /\ (fs = ScenarioTree /\ gitmodules = None) => history[i].ret = <<n_a_txt>>

\* Two returned entries a (earlier) and b (later) are in the order of the
\* walk: at the directory where their paths part, a plain entry comes before
\* everything of a subdirectory, plain entries are in ascending order of
\* their paths, and so are the subdirectories, each with all that is in it.
InOrder(a, b) ==
    \/ IsUnder(b, a)
    \/ /\ ~IsUnder(a, b)
       /\ LET k == CHOOSE n \in 1..Len(a) : a[n] # b[n] /\ SubSeq(a, 1, n - 1) = SubSeq(b, 1, n - 1)
              aPlain == Len(a) = k /\ ~is_dir(fs, a)
              bPlain == Len(b) = k /\ ~is_dir(fs, b)
          IN  IF aPlain /\ bPlain THEN CmpStr(a[k], b[k]) < 0
              ELSE IF aPlain THEN TRUE
              ELSE IF bPlain THEN FALSE
              ELSE CmpStr(a[k], b[k]) < 0

ListInOrder(l) ==
    \A i, j \in DOMAIN l : i < j =>
        \A a \in Denoted(l[i]) : \A b \in Denoted(l[j]) : InOrder(a.path, b.path)

\* C6: every returned list is in the order of the walk, which the tree alone
\* determines.
C6_Ordered ==
    \A i \in DOMAIN history : \A l \in RetLists(history[i]) : ListInOrder(l)

C6_Witness ==
    /\ fs = { Entry(<<n_a_txt>>, "file"), Entry(<<n_b>>, "dir"), Entry(<<n_b, n_b_txt>>, "file"),
              Entry(<<n_github>>, "dir"), Entry(<<n_github, n_a_txt>>, "file") }
    /\ history = <<Done(Globs(<<p_all>>),
                        <<n_a_txt, n_github, PathStr(<<n_github, n_a_txt>>),
                          n_b, PathStr(<<n_b, n_b_txt>>)>>)>>

\* C7: the mapping walk_repo_globs_map returns has exactly the keys of its
\* input; a key with no pattern that compiles is bound to the empty list.
C7_SameKeys ==
    \A i \in DOMAIN history :
        LET h == history[i] IN
        h.call.fn = "walk_repo_globs_map" =>
            /\ DOMAIN h.ret = DOMAIN h.call.globs_map
            /\ \A k \in DOMAIN h.call.globs_map :
                   ValidOnly(h.call.globs_map[k]) = <<>> => h.ret[k] = <<>>

C7_Witness ==
    /\ Entry(<<n_pkg, n_package_json>>, "file") \in fs
    /\ history # <<>>
    /\ history[1].call = GlobsMap([k \in {"json", "lock"} |->
                                      IF k = "json" THEN <<p_unclosed>> ELSE <<>>])
    /\ history[1].ret = [k \in {"json", "lock"} |-> <<>>]

\* C8: a pattern that does not compile matches nothing and fails no call:
\* walk_repo_glob returns the empty list for it, and walk_repo_globs and
\* walk_repo_globs_map return what they return without it.
C8_InvalidPatternsIgnored ==
    \A i \in DOMAIN history :
        LET h == history[i] IN
        /\ (h.call.fn = "walk_repo_glob" /\ ~GlobNew(h.call.glob).ok) => h.ret = <<>>
        /\ \A j \in DOMAIN history :
               LET g == history[j] IN
               /\ (/\ h.call.fn = "walk_repo_globs" /\ g.call.fn = "walk_repo_globs"
                   /\ g.call.globs = ValidOnly(h.call.globs)) => g.ret = h.ret
               /\ (/\ h.call.fn = "walk_repo_globs_map" /\ g.call.fn = "walk_repo_globs_map"
                   /\ DOMAIN g.call.globs_map = DOMAIN h.call.globs_map
                   /\ \A k \in DOMAIN h.call.globs_map :
                          g.call.globs_map[k] = ValidOnly(h.call.globs_map[k]))
                  => g.ret = h.ret

C8_Witness ==
    /\ Len(history) = 2
    /\ history[1].call = Globs(<<p_unclosed, p_any_json>>)
    /\ history[2].call = Globs(<<p_any_json>>)
    /\ history[1].ret = <<PathStr(<<n_pkg, n_package_json>>)>>
    /\ history[2].ret = history[1].ret

\* A list holds no path twice.
NoDuplicates(l) == \A i, j \in DOMAIN l : l[i] = l[j] => i = j

\* C10: the list walk_repo_globs_map returns for a key is the list
\* walk_repo_globs returns for that key's patterns, whatever the other keys
\* match, and holds no path twice.
C10_MapAgreesWithGlobs ==
    \A i \in DOMAIN history :
        LET h == history[i] IN
        h.call.fn = "walk_repo_globs_map" =>
            /\ \A k \in DOMAIN h.ret : NoDuplicates(h.ret[k])
            /\ \A j \in DOMAIN history :
                   LET g == history[j] IN
                   g.call.fn = "walk_repo_globs" =>
                       \A k \in DOMAIN h.call.globs_map :
                           g.call.globs = h.call.globs_map[k] => g.ret = h.ret[k]

C10_Witness ==
    /\ Len(history) = 2
    /\ history[1].call = GlobsMap([k \in {"json", "lock"} |->
                                      IF k = "json" THEN <<p_any_json>>
                                      ELSE <<p_any_lock, p_any_json>>])
    /\ history[1].ret = [k \in {"json", "lock"} |->
                            IF k = "json" THEN <<PathStr(<<n_pkg, n_package_json>>)>>
                            ELSE <<PathStr(<<n_pkg, n_package_json>>),
                                   PathStr(<<n_pkg, n_yarn_lock>>)>>]
    /\ history[2].call = Globs(<<p_any_lock, p_any_json>>)
    /\ history[2].ret = history[1].ret["lock"]

\* The lines of text from a header at i to the next header.
SectionLines(text, i) ==
    {j \in (i + 1)..Len(text) : \A m \in (i + 1)..j : text[m].t # "header"}

\* The "path" lines of the section whose header is line i.
PathLines(text, i) ==
    {j \in SectionLines(text, i) : text[j].t = "kv" /\ text[j].key = "path"}

SubmoduleHeaders(text) ==
    {i \in DOMAIN text : text[i].t = "header" /\ text[i].name = "submodule"}

\* C9: for a well-formed text, the submodule paths are None exactly when the
\* text has no submodule section, and otherwise the path value of every
\* submodule section that has one, in the order of the sections.
C9_SubmodulePaths ==
    (pc = "walking" /\ from_str(gitmodules[1]).ok) =>
        LET text == gitmodules[1]
            declaring == {i \in SubmoduleHeaders(text) : PathLines(text, i) # {}}
            rank(i) == Cardinality({j \in declaring : j <= i})
            last(S) == CHOOSE j \in S : \A m \in S : m <= j
        IN  IF SubmoduleHeaders(text) = {} THEN submodule_paths = None
            ELSE /\ submodule_paths # None
                 /\ Len(submodule_paths[1]) = Cardinality(declaring)
                 /\ \A i \in declaring :
                        submodule_paths[1][rank(i)] = text[last(PathLines(text, i))].val

\* Three submodule sections, the second without a path: the two paths are
\* read in the order of their sections.
C9_Witness ==
    /\ pc = "walking"
    /\ gitmodules = Some(<<Header("submodule", n_b),
                           KeyValue("path", PathStr(<<n_vendor, n_lib>>)),
                           Header("submodule", n_b),
                           Header("submodule", n_b),
                           KeyValue("path", n_b)>>)
    /\ submodule_paths = Some(<<PathStr(<<n_vendor, n_lib>>), n_b>>)
====
